---- MODULE Spec2Model ----
(***************************************************************************)
(* directorycompare: the analyse path (AnalyseDirectory) that walks a      *)
(* directory tree and persists one CSV file per category, and the compare  *)
(* path (CompareSources, FindDifferences) that loads two persisted sources *)
(* and writes the list of records that differ.                             *)
(*                                                                         *)
(* Strings that the code takes apart or orders (file names, suffixes, the  *)
(* decimal text of a size) are sequences of code points; strings that are  *)
(* only compared for equality (dictionary keys, source names, program      *)
(* positions) are TLA+ strings.                                            *)
(***************************************************************************)
EXTENDS Integers, Sequences, FiniteSets, TLC

VARIABLES
    data,         \* the data folder: source name -> [exists, files]
    comparisons,  \* data/comparisons: output file name -> rows written
    sources,      \* CompareSources.sources, the two names of the command line
    source1,      \* compare(): the dictionary load_source returned for sources[0]
    source2,      \* compare(): the dictionary load_source returned for sources[1]
    differences,  \* FindDifferences.differences, the list manual_check appends to
    result,       \* CompareSources.differences, the list manual_check returned
    printed,      \* what load_source printed: the sources whose OSError it reported
    cpc,          \* position of the compare command
    calls,        \* how often manual_check was called on the FindDifferences object
    fs,           \* the directory tree analyse walks: [parent, kind, name, size]
    cmdline,      \* commandline["paths"]: the root folders of the source command
    paths,        \* AnalyseDirectory.paths, which gather_files uses as folder_list
    images,       \* gather_files: the image paths found so far
    raws,         \* gather_files: the raw paths found so far
    file_data,    \* AnalyseDirectory.file_data
    written,      \* the category files save_data_to_file wrote in this run
    failure,      \* the OSError raised in this run: "none", "iterdir" or "stat"
    run,          \* which run of the source command this is: "first", "second"
    first,        \* the category files the first run left in the data folder
    popped,       \* gather_files: how often folder_list.pop() returned each folder
    apc           \* position of the source command

cvars == <<comparisons, sources, source1, source2, differences, result,
          printed, cpc, calls>>

avars == <<fs, cmdline, paths, images, raws, file_data, written, failure, run, first,
          popped, apc>>

vars == <<data, cvars, avars>>

(***************************************************************************)
(* Bounds of the model.                                                    *)
(***************************************************************************)
\* Rows one persisted source holds over all its category files together.
MaxRows == 2

\* Entries (files and folders) of the directory tree below its top folder.
MaxNodes == 4

\* Calls of manual_check on one FindDifferences object.
MaxCalls == 2

(***************************************************************************)
(* Strings as code points.                                                 *)
(***************************************************************************)
\* str.lower() on the letters A-Z; every other code point is kept.
LowerChar(c) == IF c >= 65 /\ c <= 90 THEN c + 32 ELSE c

Lower(s) == [i \in 1..Len(s) |-> LowerChar(s[i])]

\* Python's ordering of str: lexicographic by code point, a proper prefix first.
RECURSIVE StrLess(_, _)
StrLess(s, t) ==
    IF t = <<>> THEN FALSE
    ELSE IF s = <<>> THEN TRUE
    ELSE IF s[1] # t[1] THEN s[1] < t[1]
    ELSE StrLess(Tail(s), Tail(t))

StrLeq(s, t) == s = t \/ StrLess(s, t)

\* str(int) for a non-negative int: its decimal digits, no leading zero.
RECURSIVE DecStr(_)
DecStr(n) ==
    IF n < 10 THEN <<48 + n>> ELSE Append(DecStr(n \div 10), 48 + (n % 10))

\* "a.jpg", "b.jpg", "a.arw", "b.arw"
NameAJpg == <<97, 46, 106, 112, 103>>
NameBJpg == <<98, 46, 106, 112, 103>>
NameAArw == <<97, 46, 97, 114, 119>>
NameBArw == <<98, 46, 97, 114, 119>>

\* "B.PNG", "a.ARW", "n.txt", "d", "e.jpeg"
NameBPngUpper == <<66, 46, 80, 78, 71>>
NameAArwUpper == <<97, 46, 65, 82, 87>>
NameNTxt == <<110, 46, 116, 120, 116>>
NameD == <<100>>
NameEJpeg == <<101, 46, 106, 112, 101, 103>>

\* {".jpg", ".jpeg", ".png"}
IMAGE_FORMATS ==
    { <<46, 106, 112, 103>>, <<46, 106, 112, 101, 103>>, <<46, 112, 110, 103>> }

\* {".arw"}
RAW_FORMATS == { <<46, 97, 114, 119>> }

\* PurePath.suffix of a final component: the name from its last dot on, when
\* that dot is neither the first nor the last character; else "".
Suffix(name) ==
    LET dots == { i \in 1..Len(name) : name[i] = 46 }
        last == IF dots = {} THEN 0 ELSE CHOOSE i \in dots : \A j \in dots : j <= i
    IN  IF last > 1 /\ last < Len(name) THEN SubSeq(name, last, Len(name)) ELSE <<>>

(***************************************************************************)
(* Persisted sources and loaded dictionaries.                              *)
(***************************************************************************)
Categories == {"images", "raws"}

\* The names a category file can hold: process_folder puts a file under
\* "images" or "raws" by its suffix, so the two never share a name.
NamesOf(key) == IF key = "images" THEN {NameAJpg, NameBJpg} ELSE {NameAArw, NameBArw}

\* The size column as write_csv wrote it: the decimal text of st_size.
CsvSizes == {DecStr(100), DecStr(200)}

\* Row i of a category file of source src: a file of its own, so with a path
\* of its own, <src>/<i>/<name>.
Row(src, i, name, size) ==
    [name |-> name, path |-> <<src, i, name>>, size |-> size]

IsSortedByName(rows) ==
    \A i \in 1..(Len(rows) - 1) : StrLeq(rows[i].name, rows[i + 1].name)

\* The category files analyse can have written for one key: rows in ascending
\* order of name, several rows of one name allowed.
RowLists(src, key, n) ==
    { rows \in UNION { [1..k -> { Row(src, 0, nm, sz) : nm \in NamesOf(key), sz \in CsvSizes }]
                       : k \in 0..n } : IsSortedByName(rows) }

Renumber(src, rows) ==
    [i \in 1..Len(rows) |-> Row(src, i, rows[i].name, rows[i].size)]

\* A source folder: the category files it holds (a key may be missing), at most
\* MaxRows rows in all.
SourceFiles(src) ==
    { f \in UNION { [K -> UNION { RowLists(src, key, MaxRows) : key \in K }]
                    : K \in SUBSET Categories } :
        /\ \A key \in DOMAIN f : \A i \in 1..Len(f[key]) : f[key][i].name \in NamesOf(key)
        /\ Len(IF "images" \in DOMAIN f THEN f["images"] ELSE <<>>)
             + Len(IF "raws" \in DOMAIN f THEN f["raws"] ELSE <<>>) <= MaxRows }

NoFolder == [exists |-> FALSE, files |-> <<>>]

Folder(src, f) ==
    [exists |-> TRUE, files |-> [key \in DOMAIN f |-> Renumber(src, f[key])]]

\* What load_source returns: None, or a dict (its keys in insertion order).
None == [isNone |-> TRUE, order |-> <<>>, val |-> <<>>]

Dict(order, val) == [isNone |-> FALSE, order |-> order, val |-> val]

\* Every order os.listdir can return the files of a folder in.
Orders(S) ==
    { o \in [1..Cardinality(S) -> S] : \A i, j \in DOMAIN o : i # j => o[i] # o[j] }

(***************************************************************************)
(* FindDifferences.manual_check                                            *)
(***************************************************************************)
\* next((item for item in rows if item["name"] == name), None): the first
\* row of that name as <<row>>, or <<>> for None.
FoundRecord(rows, name) ==
    LET hits == { i \in 1..Len(rows) : rows[i].name = name }
    IN  IF hits = {} THEN <<>>
        ELSE <<rows[CHOOSE i \in hits : \A j \in hits : i <= j]>>

\* The loop body appending the record at hand where the code appends the one
\* it found.
Appended_record(record, found) ==
    IF found = <<>> THEN <<record>>
    ELSE IF found[1].size # record.size THEN <<record>>
    ELSE <<>>

\* The body of the loop over the records of one key: what is appended for
\* `record` given the lookup's answer.
Appended(record, found) ==
    IF found = <<>> THEN <<record>>
    ELSE IF found[1].size # record.size THEN <<found[1]>>
    ELSE <<>>

\* Whether Y has rows under key: a dict without the key behaves as the code's
\* self.B[key] does (KeyError), None as a subscript of None does (TypeError).
Lookup(Y, key) ==
    IF Y.isNone THEN [err |-> "TypeError", rows |-> <<>>]
    ELSE IF key \notin DOMAIN Y.val THEN [err |-> "KeyError", rows |-> <<>>]
    ELSE [err |-> "none", rows |-> Y.val[key]]

\* for record in X[key]: ... , from the state st = [diffs, err] on; the first
\* exception ends the loop and is kept in st.err.
RECURSIVE PassRecords(_, _, _, _)
PassRecords(recs, Y, key, st) ==
    IF recs = <<>> \/ st.err # "none" THEN st
    ELSE LET record == Head(recs)
             look == Lookup(Y, key)
         IN  IF look.err # "none" THEN [st EXCEPT !.err = look.err]
             ELSE PassRecords(Tail(recs), Y, key,
                      [st EXCEPT !.diffs = @ \o Appended(record, FoundRecord(look.rows, record["name"]))])

\* for key, value in X.items(): ..., the keys in the dict's order.
RECURSIVE PassKeys(_, _, _, _)
PassKeys(order, X, Y, st) ==
    IF order = <<>> \/ st.err # "none" THEN st
    ELSE PassKeys(Tail(order), X, Y, PassRecords(X.val[Head(order)], Y, Head(order), st))

\* One of the two passes of manual_check: every record of X looked up in Y.
Pass(X, Y, st) ==
    IF st.err # "none" THEN st
    ELSE IF X.isNone THEN [st EXCEPT !.err = "AttributeError"]
    ELSE PassKeys(X.order, X, Y, st)

\* manual_check without its second loop.
manual_check_one_pass(A, B, diffs) ==
    Pass(A, B, [diffs |-> diffs, err |-> "none"])

\* manual_check starting from an empty list whatever the object holds.
manual_check_clears(A, B, diffs) ==
    Pass(B, A, Pass(A, B, [diffs |-> <<>>, err |-> "none"]))

\* manual_check with its two loops in the other order.
manual_check_b_first(A, B, diffs) ==
    Pass(A, B, Pass(B, A, [diffs |-> diffs, err |-> "none"]))

\* manual_check on an object whose differences list is `diffs`: the pass over
\* A, then the pass over B, both appending to the same list.
manual_check(A, B, diffs) ==
    Pass(B, A, Pass(A, B, [diffs |-> diffs, err |-> "none"]))

(***************************************************************************)
(* CompareSources                                                          *)
(***************************************************************************)
\* load_source answering a missing folder with an empty dict.
load_source_empty(folder, order) ==
    IF ~folder.exists THEN Dict(<<>>, <<>>) ELSE Dict(order, folder.files)

\* load_source: os.listdir raises OSError for a missing folder, which is
\* printed and None returned; else one dict entry per file, in listing order.
load_source(folder, order) ==
    IF ~folder.exists THEN None ELSE Dict(order, folder.files)

ListingOrders(folder) ==
    IF ~folder.exists THEN {<<>>} ELSE Orders(DOMAIN folder.files)

\* compare(), lines 247-248: both sources are loaded.
LoadSources ==
    /\ cpc = "start"
    /\ \E o1 \in ListingOrders(data[sources[1]]), o2 \in ListingOrders(data[sources[2]]) :
          /\ source1' = load_source(data[sources[1]], o1)
          /\ source2' = load_source(data[sources[2]], o2)
    /\ printed' = printed \o SelectSeq(sources, LAMBDA s : ~data[s].exists)
    /\ cpc' = "loaded"
    /\ UNCHANGED <<data, comparisons, sources, differences, result, calls, avars>>

\* compare(), lines 249-250: FindDifferences(source1, source2).manual_check();
\* an exception ends the command there.
ManualCheck ==
    /\ cpc = "loaded"
    /\ LET r == manual_check(source1, source2, <<>>)
       IN  /\ differences' = r.diffs
           /\ result' = IF r.err = "none" THEN r.diffs ELSE result
           /\ cpc' = IF r.err = "none" THEN "checked" ELSE r.err
    /\ calls' = 1
    /\ UNCHANGED <<data, comparisons, sources, source1, source2, printed, avars>>

\* A further call of manual_check on the same FindDifferences object: the
\* loops append to self.differences as the earlier calls left it (it is set to
\* [] in __init__ only) and the same list is returned.
ManualCheckAgain ==
    /\ cpc = "checked"
    /\ calls < MaxCalls
    /\ LET r == manual_check(source1, source2, differences)
       IN  /\ differences' = r.diffs
           /\ result' = r.diffs
    /\ calls' = calls + 1
    /\ UNCHANGED <<data, comparisons, sources, source1, source2, printed, cpc, avars>>

\* save_data: the differences written to comparisons/<source1>_<source2>.csv.
SaveData ==
    /\ cpc = "checked"
    /\ comparisons' = comparisons \cup {[file |-> sources, rows |-> result]}
    /\ cpc' = "saved"
    /\ UNCHANGED <<data, sources, source1, source2, differences, result, printed,
                   calls, avars>>

\* gather_files has popped no folder yet.
NonePopped == [n \in 0..MaxNodes |-> 0]

\* No source command is running.
AnalyseOff ==
    /\ fs = [parent |-> <<>>, kind |-> <<>>, name |-> <<>>, size |-> <<>>]
    /\ cmdline = <<>>
    /\ paths = <<>>
    /\ images = <<>>
    /\ raws = <<>>
    /\ file_data = <<>>
    /\ written = <<>>
    /\ failure = "none"
    /\ run = "none"
    /\ first = <<>>
    /\ popped = NonePopped
    /\ apc = "off"

\* CompareSources.__init__ has run for a command line naming one source twice
\* or two sources, over any contents of the data folder.
InitCompare ==
    /\ \E f1 \in {NoFolder} \cup { Folder("s1", f) : f \in SourceFiles("s1") } :
          \/ /\ sources = <<"s1", "s1">>
             /\ data = [s \in {"s1"} |-> f1]
          \/ /\ sources = <<"s1", "s2">>
             /\ \E f2 \in {NoFolder} \cup { Folder("s2", f) : f \in SourceFiles("s2") } :
                   data = [s \in {"s1", "s2"} |-> IF s = "s1" THEN f1 ELSE f2]
    /\ comparisons = {}
    /\ source1 = None
    /\ source2 = None
    /\ differences = <<>>
    /\ result = <<>>
    /\ printed = <<>>
    /\ cpc = "start"
    /\ calls = 0
    /\ AnalyseOff

NextCompare == LoadSources \/ ManualCheck \/ SaveData

SpecCompare == InitCompare /\ [][NextCompare]_vars

\* A caller that builds one FindDifferences object from two loaded sources and
\* calls manual_check on it up to MaxCalls times.
NextCalls == LoadSources \/ ManualCheck \/ ManualCheckAgain

SpecCalls == InitCompare /\ [][NextCalls]_vars

(***************************************************************************)
(* The directory tree of the source command.                               *)
(***************************************************************************)
Nodes == 1..MaxNodes

\* What an entry of the tree can be: an image, an image with an upper-case
\* suffix, a raw file, a file of another type, a folder, and a folder whose
\* name ends in an image suffix.
Entries ==
    << [kind |-> "file", name |-> NameAJpg],
       [kind |-> "file", name |-> NameBPngUpper],
       [kind |-> "file", name |-> NameAArwUpper],
       [kind |-> "file", name |-> NameNTxt],
       [kind |-> "dir", name |-> NameD],
       [kind |-> "dir", name |-> NameEJpeg] >>

\* Entry n lies in folder parent[n]; 0 is the top folder. Entries are numbered
\* folder by folder and, within a folder, in the order of Entries, which
\* loses no tree: what the code sees is the listing, drawn in every order.
ParentMaps ==
    { p \in [Nodes -> 0..(MaxNodes - 1)] :
        \A i \in Nodes : p[i] < i /\ (i > 1 => p[i - 1] <= p[i]) }

EntryMaps(p) ==
    { e \in [Nodes -> 1..Len(Entries)] :
        /\ \A i \in Nodes : p[i] # 0 => Entries[e[p[i]]].kind = "dir"
        /\ \A i \in Nodes : (i > 1 /\ p[i - 1] = p[i]) => e[i - 1] < e[i] }

Tree(p, e) ==
    [parent |-> p,
     kind   |-> [n \in Nodes |-> Entries[e[n]].kind],
     name   |-> [n \in Nodes |-> Entries[e[n]].name],
     size   |-> [n \in Nodes |-> 100 * n]]

Folders == {0} \cup { n \in DOMAIN fs.kind : fs.kind[n] = "dir" }

Children(folder) == { n \in DOMAIN fs.parent : fs.parent[n] = folder }

\* str(path) of an absolute path, as its components below the top folder.
RECURSIVE PathStr(_)
PathStr(n) == IF n = 0 THEN <<>> ELSE Append(PathStr(fs.parent[n]), fs.name[n])

is_file(n) == fs.kind[n] = "file"

is_dir(n) == fs.kind[n] = "dir"

(***************************************************************************)
(* AnalyseDirectory                                                        *)
(***************************************************************************)
\* The image branch without its is_file() test.
IsImageChild_any_entry(child) == Lower(Suffix(fs.name[child])) \in IMAGE_FORMATS

\* process_folder's three branches for one child.
IsImageChild(child) == Lower(Suffix(fs.name[child])) \in IMAGE_FORMATS /\ is_file(child)

IsRawChild(child) ==
    ~IsImageChild(child) /\ Lower(Suffix(fs.name[child])) \in RAW_FORMATS /\ is_file(child)

IsFolderChild(child) == ~IsImageChild(child) /\ ~IsRawChild(child) /\ is_dir(child)

\* process_folder on a folder whose iterdir() yields `listing`.
process_folder(listing) ==
    [images  |-> SelectSeq(listing, IsImageChild),
     raws    |-> SelectSeq(listing, IsRawChild),
     folders |-> SelectSeq(listing, IsFolderChild)]

Last(seq) == seq[Len(seq)]

Front(seq) == SubSeq(seq, 1, Len(seq) - 1)

\* The traceback of an uncaught OSError ends the command; nothing of the
\* AnalyseDirectory object is left.
Abort(kind) ==
    /\ failure' = kind
    /\ apc' = "aborted"
    /\ paths' = <<>>
    /\ images' = <<>>
    /\ raws' = <<>>
    /\ file_data' = <<>>
    /\ popped' = NonePopped
    /\ UNCHANGED <<data, fs, cmdline, written, run, first, cvars>>

\* A turn of the loop that reads folder_list[-1] and leaves it in the list.
GatherStep_peeks ==
    /\ apc = "gather"
    /\ paths # <<>>
    /\ \E listing \in Orders(Children(Last(paths))) :
          LET found == process_folder(listing)
          IN  /\ paths' = paths \o found.folders
              /\ images' = images \o found.images
              /\ raws' = raws \o found.raws
    /\ popped' = popped
    /\ UNCHANGED <<data, fs, cmdline, file_data, written, failure, run, first, apc,
                   cvars>>

\* gather_files, one turn of its loop: folder_list.pop() is listed and the
\* folders, images and raws found are appended.
GatherStep ==
    /\ apc = "gather"
    /\ paths # <<>>
    /\ \E listing \in Orders(Children(Last(paths))) :
          LET found == process_folder(listing)
          IN  /\ paths' = Front(paths) \o found.folders
              /\ images' = images \o found.images
              /\ raws' = raws \o found.raws
    /\ popped' = [popped EXCEPT ![Last(paths)] = @ + 1]
    /\ UNCHANGED <<data, fs, cmdline, file_data, written, failure, run, first, apc,
                   cvars>>

\* gather_files, a turn of the loop in which folder.iterdir() raises.
GatherFails ==
    /\ apc = "gather"
    /\ paths # <<>>
    /\ Abort("iterdir")

\* The record retrieve_stats builds for one path.
FileRecord(n) == [name |-> fs.name[n], path |-> PathStr(n), size |-> fs.size[n]]

Records(files) == [i \in 1..Len(files) |-> FileRecord(files[i])]

\* gather_files returns (folder_list is empty) and retrieve_stats fills
\* file_data from the paths found.
RetrieveStats ==
    /\ apc = "gather"
    /\ paths = <<>>
    /\ file_data' = [key \in Categories |->
                        IF key = "images" THEN Records(images) ELSE Records(raws)]
    /\ apc' = "stats"
    /\ UNCHANGED <<data, fs, cmdline, paths, images, raws, written, failure, run,
                   first, popped, cvars>>

\* retrieve_stats catching the OSError of os.stat and leaving the path out.
RetrieveStatsFails_skips ==
    /\ apc = "gather"
    /\ paths = <<>>
    /\ images \o raws # <<>>
    /\ failure' = "stat"
    /\ file_data' = [key \in Categories |->
                        IF key = "images" THEN Records(Front(images))
                        ELSE IF images = <<>> THEN Records(Front(raws)) ELSE Records(raws)]
    /\ apc' = "stats"
    /\ UNCHANGED <<data, fs, cmdline, paths, images, raws, written, run, first, popped,
                   cvars>>

\* retrieve_stats in which os.stat raises for one of the paths.
RetrieveStatsFails ==
    /\ apc = "gather"
    /\ paths = <<>>
    /\ images \o raws # <<>>
    /\ Abort("stat")

\* A sort that keeps one row of each name.
RECURSIVE sorted_by_name_unique(_)
sorted_by_name_unique(rows) ==
    IF rows = <<>> THEN <<>>
    ELSE LET done == sorted_by_name_unique(Front(rows))
             row == Last(rows)
             k == Cardinality({ i \in 1..Len(done) : StrLeq(done[i].name, row.name) })
         IN  IF \E i \in 1..Len(done) : done[i].name = row.name THEN done
             ELSE SubSeq(done, 1, k) \o <<row>> \o SubSeq(done, k + 1, Len(done))

\* sorted(rows, key=name): a stable sort, so rows of one name keep their order.
RECURSIVE sorted_by_name(_)
sorted_by_name(rows) ==
    IF rows = <<>> THEN <<>>
    ELSE LET done == sorted_by_name(Front(rows))
             row == Last(rows)
             k == Cardinality({ i \in 1..Len(done) : StrLeq(done[i].name, row.name) })
         IN  SubSeq(done, 1, k) \o <<row>> \o SubSeq(done, k + 1, Len(done))

sort_data ==
    /\ apc = "stats"
    /\ file_data' = [key \in Categories |-> sorted_by_name(file_data[key])]
    /\ apc' = "sorted"
    /\ UNCHANGED <<data, fs, cmdline, paths, images, raws, written, failure, run,
                   first, popped, cvars>>

\* write_csv's rows: DictWriter writes str() of each field.
CsvRows(rows) ==
    [i \in 1..Len(rows) |->
        [name |-> rows[i].name, path |-> rows[i].path, size |-> DecStr(rows[i].size)]]

\* save_data_to_file: the output folder is created and one file written per
\* key of file_data.
save_data_to_file ==
    /\ apc = "sorted"
    /\ LET files == [key \in Categories |-> CsvRows(file_data[key])]
       IN  /\ data' = [data EXCEPT !["s1"] = [exists |-> TRUE, files |-> files]]
           /\ first' = IF run = "first" THEN files ELSE first
    /\ written' = <<"images", "raws">>
    /\ apc' = "saved"
    /\ UNCHANGED <<fs, cmdline, paths, images, raws, file_data, failure, run, popped,
                   cvars>>

\* remove_recursive that removes the files and leaves the folder.
remove_recursive_files_only(folder) == [exists |-> TRUE, files |-> <<>>]

\* utils.remove_recursive on an output folder: while the folder lists a file,
\* the first one listed is removed; then the empty folder is removed.
RECURSIVE remove_recursive(_)
remove_recursive(folder) ==
    IF DOMAIN folder.files # {}
    THEN LET item == CHOOSE key \in DOMAIN folder.files : TRUE
         IN  remove_recursive([folder EXCEPT
                 !.files = [key \in DOMAIN folder.files \ {item} |-> folder.files[key]]])
    ELSE NoFolder

\* The source command is given again for the same name and the same roots,
\* after a run that saved: AnalyseDirectory.__init__ removes the output folder
\* of the name. (After a run that aborted the folder is absent as in Init.)
Construct ==
    /\ apc = "saved"
    /\ run = "first"
    /\ run' = "second"
    /\ data' = [data EXCEPT !["s1"] = IF data["s1"].exists
                                      THEN remove_recursive(data["s1"])
                                      ELSE data["s1"]]
    /\ paths' = cmdline
    /\ images' = <<>>
    /\ raws' = <<>>
    /\ file_data' = <<>>
    /\ written' = <<>>
    /\ failure' = "none"
    /\ popped' = NonePopped
    /\ apc' = "gather"
    /\ UNCHANGED <<fs, cmdline, first, cvars>>

\* No compare command is running.
CompareOff ==
    /\ comparisons = {}
    /\ sources = <<>>
    /\ source1 = None
    /\ source2 = None
    /\ differences = <<>>
    /\ result = <<>>
    /\ printed = <<>>
    /\ cpc = "off"
    /\ calls = 0

\* The root lists of the command line: one folder, or the top folder and one
\* more (the top folder again, or a folder inside it).
RootLists == { <<r>> : r \in Folders } \cup { <<0, r>> : r \in Folders }

\* AnalyseDirectory.__init__ has run for source "s1", which had no folder, over
\* any tree and any roots in it.
InitAnalyse ==
    /\ \E p \in ParentMaps : \E e \in EntryMaps(p) : fs = Tree(p, e)
    /\ cmdline \in RootLists
    /\ paths = cmdline
    /\ images = <<>>
    /\ raws = <<>>
    /\ file_data = <<>>
    /\ written = <<>>
    /\ failure = "none"
    /\ run = "first"
    /\ first = <<>>
    /\ popped = NonePopped
    /\ apc = "gather"
    /\ data = [s \in {"s1"} |-> NoFolder]
    /\ CompareOff

NextAnalyse ==
    \/ GatherStep
    \/ GatherFails
    \/ RetrieveStats
    \/ RetrieveStatsFails
    \/ sort_data
    \/ save_data_to_file
    \/ Construct

SpecAnalyse == InitAnalyse /\ [][NextAnalyse]_vars

\* gather_files alone: the loop runs on until folder_list is empty or
\* iterdir() raises.
NextGather == GatherStep \/ GatherFails

SpecGather == InitAnalyse /\ [][NextGather]_vars /\ WF_vars(GatherStep)

(***************************************************************************)
(* run(): one command per process, "source" or "compare".                  *)
(***************************************************************************)
Init == InitAnalyse \/ InitCompare

Next == NextAnalyse \/ NextCompare

Spec == Init /\ [][Next]_vars

(***************************************************************************)
(* Properties of the compare path, checked under SpecCompare.              *)
(***************************************************************************)
Range(seq) == { seq[i] : i \in 1..Len(seq) }

Count(seq, x) == Cardinality({ i \in 1..Len(seq) : seq[i] = x })

\* The two lists hold the same records with the same multiplicities.
SameBag(s, t) ==
    \A x \in Range(s) \cup Range(t) : Count(s, x) = Count(t, x)

Named(seq, name) == SelectSeq(seq, LAMBDA r : r.name = name)

RowsOf(X, key) == IF key \in DOMAIN X.val THEN X.val[key] ELSE <<>>

BothLoaded == ~source1.isNone /\ ~source2.isNone

\* manual_check has been called: it returned or it raised.
CheckEnded == cpc \notin {"start", "loaded"}

CheckReturned == cpc \in {"checked", "saved"}

\* C1: a source compared with itself yields an empty difference list, also
\* when one of its categories holds several records of one name.
C1_SelfDiffEmpty ==
    (CheckEnded /\ BothLoaded /\ source1.val = source2.val)
        => (CheckReturned /\ result = <<>>)

\* C2: manual_check on (A, B) and on (B, A) return the same multiset of
\* records, and one completes without error exactly when the other does.
C2_Symmetric ==
    CheckEnded =>
        LET swapped == manual_check(source2, source1, <<>>)
        IN  /\ CheckReturned <=> swapped.err = "none"
            /\ CheckReturned => SameBag(result, swapped.diffs)

\* C2's case: both orders return, with the same records in a different order.
C2_Witness ==
    /\ cpc = "checked"
    /\ sources[1] # sources[2]
    /\ Len(result) >= 2
    /\ manual_check(source2, source1, <<>>).diffs # result

\* C3: when a key is in one inventory and not in the other, manual_check
\* completes and returns every record the side that has the key holds there.
C3_MissingKeyAllReported ==
    (CheckEnded /\ BothLoaded) =>
        \A key \in Categories :
            /\ (key \in DOMAIN source1.val /\ key \notin DOMAIN source2.val)
                 => (CheckReturned /\ Range(source1.val[key]) \subseteq Range(result))
            /\ (key \in DOMAIN source2.val /\ key \notin DOMAIN source1.val)
                 => (CheckReturned /\ Range(source2.val[key]) \subseteq Range(result))

\* The pairs (key, name) with exactly one record of that name on each side,
\* the two of different sizes.
SingleMismatch(key, name) ==
    /\ key \in DOMAIN source1.val /\ key \in DOMAIN source2.val
    /\ Len(Named(source1.val[key], name)) = 1
    /\ Len(Named(source2.val[key], name)) = 1
    /\ Named(source1.val[key], name)[1].size # Named(source2.val[key], name)[1].size

\* C4: one record named n on each side, of different sizes: the result holds
\* exactly two entries named n, B's record (from the pass over A) and then
\* A's record (from the pass over B).
C4_MismatchTwoEntries ==
    (CheckReturned /\ BothLoaded) =>
        \A key \in Categories : \A name \in NamesOf(key) :
            SingleMismatch(key, name) =>
                Named(result, name)
                    = Named(source2.val[key], name) \o Named(source1.val[key], name)

\* C4's case: a single size mismatch, reported next to other differences.
C4_Witness ==
    /\ cpc = "checked"
    /\ BothLoaded
    /\ \E key \in Categories : \E name \in NamesOf(key) :
          /\ SingleMismatch(key, name)
          /\ Len(result) > 2

\* Some record of Y under key has the name and the size of r.
HasTwin(Y, key, r) ==
    \E i \in 1..Len(RowsOf(Y, key)) :
        /\ RowsOf(Y, key)[i].name = r.name
        /\ RowsOf(Y, key)[i].size = r.size

\* C5: a record is never in the result when the other inventory holds, under
\* the same key, a record of the same name and size, also when a key holds
\* several records of that name.
C5_TwinNeverReported ==
    (CheckReturned /\ BothLoaded) =>
        \A key \in Categories :
            /\ \A r \in Range(RowsOf(source1, key)) :
                   HasTwin(source2, key, r) => r \notin Range(result)
            /\ \A r \in Range(RowsOf(source2, key)) :
                   HasTwin(source1, key, r) => r \notin Range(result)

Missing == \E i \in 1..2 : ~data[sources[i]].exists

\* C9: when a source of the compare command has no folder, the command
\* aborts: the source is reported, it is loaded as None and not as an empty
\* dict, manual_check returns no list and save_data writes no file.
C9_MissingSourceAborts ==
    Missing =>
        /\ cpc \in {"start", "loaded", "AttributeError", "TypeError"}
        /\ result = <<>>
        /\ comparisons = {}
        /\ cpc # "start" =>
              /\ \A i \in 1..2 : ~data[sources[i]].exists => sources[i] \in Range(printed)
              /\ ~data[sources[1]].exists => source1 = None
              /\ ~data[sources[2]].exists => source2 = None

\* C9's case: the second source is missing, the first one holds rows, and
\* manual_check has raised.
C9_Witness ==
    /\ data[sources[1]].exists
    /\ ~data[sources[2]].exists
    /\ source1.val # <<>>
    /\ cpc = "TypeError"
    /\ differences = <<>>

\* The category file a name belongs in.
CategoryOf(name) == CHOOSE key \in Categories : name \in NamesOf(key)

\* Category-then-name order: the entries of one category are contiguous and,
\* within a category, ascending by name.
InCategoryNameOrder(seq) ==
    \A i, j \in 1..Len(seq) :
        (i < j /\ CategoryOf(seq[i].name) = CategoryOf(seq[j].name)) =>
            /\ StrLeq(seq[i].name, seq[j].name)
            /\ \A k \in i..j : CategoryOf(seq[k].name) = CategoryOf(seq[i].name)

\* What each pass of manual_check appends on its own.
PassOverA == Pass(source1, source2, [diffs |-> <<>>, err |-> "none"]).diffs

PassOverB == Pass(source2, source1, [diffs |-> <<>>, err |-> "none"]).diffs

RECURSIVE Repeat(_, _)
Repeat(seq, k) == IF k = 0 THEN <<>> ELSE seq \o Repeat(seq, k - 1)

\* What one call of manual_check on a fresh object returns for the loaded
\* sources.
SingleCall == manual_check(source1, source2, <<>>).diffs

RECURSIVE Under(_, _)
Under(n, r) == n = r \/ (n # 0 /\ Under(fs.parent[n], r))

Reachable(n) == \E i \in 1..Len(cmdline) : Under(n, cmdline[i])

\* The entries of the root list entry n is reachable from.
RootsOver(n) == Cardinality({ i \in 1..Len(cmdline) : Under(n, cmdline[i]) })

HasImageSuffix(n) == Lower(Suffix(fs.name[n])) \in IMAGE_FORMATS

HasRawSuffix(n) == Lower(Suffix(fs.name[n])) \in RAW_FORMATS

\* gather_files has returned its two lists.
GatherReturned ==
    \/ apc = "gather" /\ paths = <<>>
    \/ apc \in {"stats", "sorted", "saved"}

\* C6: every regular file reachable from the roots is returned exactly once
\* over the two lists together: under images alone with an image suffix,
\* under raws alone with a raw suffix; nothing else is returned, a folder
\* never.
C6_EachFileOnce ==
    GatherReturned =>
        \A n \in Nodes :
            /\ Count(images, n)
                 = IF is_file(n) /\ HasImageSuffix(n) /\ Reachable(n) THEN 1 ELSE 0
            /\ Count(raws, n)
                 = IF is_file(n) /\ HasRawSuffix(n) /\ Reachable(n) THEN 1 ELSE 0

\* C6 as amended: every regular file is returned once for each entry of the
\* root list it is reachable from (so exactly once when no folder is given
\* twice and no root lies inside another): under images alone with an image
\* suffix, under raws alone with a raw suffix; nothing else is returned, a
\* folder never.
C6_EachFileOncePerRoot ==
    GatherReturned =>
        \A n \in Nodes :
            /\ Count(images, n) = IF is_file(n) /\ HasImageSuffix(n) THEN RootsOver(n) ELSE 0
            /\ Count(raws, n) = IF is_file(n) /\ HasRawSuffix(n) THEN RootsOver(n) ELSE 0

\* C6's case: the walk has returned an image and a raw file and has passed a
\* folder named like an image and a file of another type.
C6_Witness ==
    /\ GatherReturned
    /\ \E n \in Nodes : Count(images, n) = 1 /\ fs.parent[n] # 0
    /\ \E n \in Nodes : Count(raws, n) = 1
    /\ \E n \in Nodes : is_dir(n) /\ HasImageSuffix(n) /\ Reachable(n)
    /\ \E n \in Nodes : is_file(n) /\ ~HasImageSuffix(n) /\ ~HasRawSuffix(n) /\ Reachable(n)

\* C7: a second run for the same name over the unchanged tree persists the
\* rows the first run persisted, in the same order in every category file.
C7_RerunIdentical ==
    (run = "second" /\ apc = "saved") => data["s1"].files = first

\* C8: when a listing or a stat fails, analyse aborts, save_data_to_file is
\* not reached and no category file exists for the name.
C8_FailureAborts ==
    failure # "none" =>
        /\ apc = "aborted"
        /\ written = <<>>
        /\ ~data["s1"].exists

\* C8's case: a stat failed in a run that follows a run which saved.
C8_Witness ==
    /\ failure = "stat"
    /\ run = "second"
    /\ first # <<>>
    /\ apc = "aborted"

\* C10: after sort_data every category of file_data is in ascending order of
\* name and holds the records retrieve_stats made for it, each as often.
C10_SortedPermutation ==
    apc \in {"sorted", "saved"} =>
        /\ IsSortedByName(file_data["images"])
        /\ IsSortedByName(file_data["raws"])
        /\ SameBag(file_data["images"], Records(images))
        /\ SameBag(file_data["raws"], Records(raws))

\* C10's case: sort_data moved a record, and two records share a name.
C10_Witness ==
    /\ apc = "sorted"
    /\ file_data["images"] # Records(images)
    /\ \E i, j \in 1..Len(images) :
          i # j /\ file_data["images"][i].name = file_data["images"][j].name

Subfolders(folder) == { n \in Children(folder) : is_dir(n) }

\* A turn of the loop: the last folder of folder_list is taken off and counted,
\* and what is appended is its immediate subfolders, each once.
PopsOnePushesSubfolders ==
    LET folder == Last(paths)
        kept   == Len(paths) - 1
        pushed == SubSeq(paths', kept + 1, Len(paths'))
    IN  /\ Len(paths') >= kept
        /\ SubSeq(paths', 1, kept) = Front(paths)
        /\ Range(pushed) = Subfolders(folder)
        /\ Len(pushed) = Cardinality(Subfolders(folder))
        /\ popped' = [popped EXCEPT ![folder] = popped[folder] + 1]

\* At the return every folder was popped as often as the root list reaches
\* it, and the files returned are the files of those folders, whatever the
\* order the folders were listed and popped in.
AllPoppedFilesFixed ==
    /\ \A d \in 0..MaxNodes :
          popped[d] = IF d \in Folders THEN RootsOver(d) ELSE 0
    /\ \A n \in Nodes :
          /\ Count(images, n)
               = IF is_file(n) /\ HasImageSuffix(n) THEN popped[fs.parent[n]] ELSE 0
          /\ Count(raws, n)
               = IF is_file(n) /\ HasRawSuffix(n) THEN popped[fs.parent[n]] ELSE 0

\* C12: on every finite tree the loop of gather_files empties folder_list and
\* returns (unless iterdir raises); each turn pops one folder and pushes only
\* its immediate subfolders; every folder reachable from the roots is popped;
\* and the files returned do not depend on the order of popping.
C12_GatherTerminates ==
    /\ <>(GatherReturned \/ failure = "iterdir")
    /\ [][(apc = "gather" /\ apc' = "gather") => PopsOnePushesSubfolders]_vars
    /\ [](GatherReturned => AllPoppedFilesFixed)

\* C12's case: the loop has returned after popping a folder two levels below
\* a root and a folder with two subfolders, which can be listed in two orders.
C12_Witness ==
    /\ GatherReturned
    /\ failure = "none"
    /\ \E d \in Folders : d # 0 /\ fs.parent[d] # 0 /\ popped[d] >= 1
    /\ \E d \in Folders : popped[d] >= 1 /\ Cardinality(Subfolders(d)) >= 2

====
